---- MODULE Spec2Model ----
(***************************************************************************)
(* fzr: store_file / load_file (src/fzr/src/data/ipfs_ops.rs).             *)
(*                                                                         *)
(* Concurrent callers run store_file and load_file against one shared      *)
(* store client guarded by a reader/writer lock.  Byte buffers are         *)
(* sequences of numbers 0..255, text is a sequence of code points, an      *)
(* identifier's textual form is a sequence of character codes.             *)
(***************************************************************************)
EXTENDS Integers, Naturals, Sequences, FiniteSets, TLC

\* ------------------------------------------------------------------ bounds

\* Number of concurrent callers (tasks) sharing the store client.
NumCallers == 2

\* Total number of store_file / load_file calls made in one behaviour.
MaxCalls == 3

\* Number of times another program rewrites a file that is being stored.
MaxRewrites == 1

Procs == 1..NumCallers

\* ------------------------------------------------------------------ inputs

\* "GIF89a\x01\0\x01\0\0\0\0;", the smallest gif of tests::test_store_load.
SmallestGif == <<71, 73, 70, 56, 57, 97, 1, 0, 1, 0, 0, 0, 0, 59>>

\* "howdy", the text file of tests::test_store_load.
Howdy == <<104, 111, 119, 100, 121>>

\* "hi" followed by U+00E9 in two bytes: 4 bytes, 3 characters.
Accented == <<104, 105, 195, 169>>

\* Neither an image signature nor valid UTF-8.
Binary == <<255, 254, 0, 1>>

\* "GIF8": the signature of a gif, and nothing a decoder can read.
TruncatedGif == <<71, 73, 70, 56>>

\* "hi": valid UTF-8, shorter than the 4 bytes that are sniffed.
ShortText == <<104, 105>>

\* The contents a file handed to store_file may have.
Buffers == {<<>>, ShortText, Howdy, Accented, Binary, TruncatedGif, SmallestGif}

\* ------------------------------------------------------- content data model

\* "image/gif", "image/png", "image/jpeg", "image/bmp" as character codes.
MimeGif == <<105, 109, 97, 103, 101, 47, 103, 105, 102>>
MimePng == <<105, 109, 97, 103, 101, 47, 112, 110, 103>>
MimeJpeg == <<105, 109, 97, 103, 101, 47, 106, 112, 101, 103>>
MimeBmp == <<105, 109, 97, 103, 101, 47, 98, 109, 112>>

\* ImageMetadata / TextMetadata; a text item leaves the image fields empty.
Metadata(size, mime, w, h) ==
    [size_bytes |-> size, mime_type |-> mime, width_px |-> w, height_px |-> h]

\* ContentItem::Image(ImageContent { buffer }, ImageMetadata { .. })
ImageItem(buf, size, mime, w, h) ==
    [variant |-> "Image", payload |-> buf, meta |-> Metadata(size, mime, w, h)]

\* ContentItem::Text(TextContent { string }, TextMetadata { size_bytes })
TextItem(string, size) ==
    [variant |-> "Text", payload |-> string, meta |-> Metadata(size, <<>>, 0, 0)]

\* No content item (a local not yet assigned).
NoItem == [variant |-> "None", payload |-> <<>>, meta |-> Metadata(0, <<>>, 0, 0)]

\* ContentItemBlock { content, size_bytes }
ContentItemBlock(item, size) == [content |-> item, size_bytes |-> size]

NoBlock == ContentItemBlock(NoItem, 0)

\* ------------------------------------------------------------ pure helpers

\* &buffer[0..4]: defined only when the buffer holds at least 4 bytes.
SliceInBounds(buf) == Len(buf) >= 4

Prefix4(buf) == SubSeq(buf, 1, 4)

\* infer::is_image on the sniffed bytes: the signatures that fit in 4 bytes.
IsGif(b) == Len(b) > 2 /\ b[1] = 71 /\ b[2] = 73 /\ b[3] = 70
IsPng(b) == Len(b) > 3 /\ b[1] = 137 /\ b[2] = 80 /\ b[3] = 78 /\ b[4] = 71
IsJpeg(b) == Len(b) > 2 /\ b[1] = 255 /\ b[2] = 216 /\ b[3] = 255
IsBmp(b) == Len(b) > 1 /\ b[1] = 66 /\ b[2] = 77

IsImage(b) == IsJpeg(b) \/ IsPng(b) \/ IsGif(b) \/ IsBmp(b)

\* infer::get(..).mime_type() on the sniffed bytes.
MimeType(b) ==
    IF IsJpeg(b) THEN MimeJpeg
    ELSE IF IsPng(b) THEN MimePng
    ELSE IF IsGif(b) THEN MimeGif
    ELSE MimeBmp

\* image::image_dimensions on the file's contents.  The gif container is the
\* one modelled: "GIF87a" or "GIF89a", then the logical screen descriptor
\* (width and height as little-endian u16, three more bytes).
ImageDimensions(f) ==
    IF Len(f) >= 13 /\ IsGif(f) /\ f[4] = 56 /\ f[5] \in {55, 57} /\ f[6] = 97
    THEN [ok |-> TRUE, width_px |-> f[7] + 256 * f[8], height_px |-> f[9] + 256 * f[10]]
    ELSE [ok |-> FALSE, width_px |-> 0, height_px |-> 0]

IsCont(x) == x >= 128 /\ x <= 191

\* Number of bytes of the UTF-8 sequence starting at b[i], 0 when invalid.
Utf8SeqLen(b, i) ==
    IF b[i] < 128 THEN 1
    ELSE IF b[i] >= 194 /\ b[i] <= 223 /\ i + 1 <= Len(b) /\ IsCont(b[i + 1]) THEN 2
    ELSE IF b[i] >= 224 /\ b[i] <= 239 /\ i + 2 <= Len(b)
            /\ IsCont(b[i + 1]) /\ IsCont(b[i + 2]) THEN 3
    ELSE IF b[i] >= 240 /\ b[i] <= 244 /\ i + 3 <= Len(b)
            /\ IsCont(b[i + 1]) /\ IsCont(b[i + 2]) /\ IsCont(b[i + 3]) THEN 4
    ELSE 0

RECURSIVE Utf8ValidFrom(_, _)
Utf8ValidFrom(b, i) ==
    IF i > Len(b) THEN TRUE
    ELSE IF Utf8SeqLen(b, i) = 0 THEN FALSE
    ELSE Utf8ValidFrom(b, i + Utf8SeqLen(b, i))

\* A use of from_utf8_lossy in place of from_utf8: nothing is rejected.
Utf8ValidLossy(b) == TRUE

\* String::from_utf8(buffer) is Ok
Utf8Valid(b) == Utf8ValidFrom(b, 1)

\* The code point of the UTF-8 sequence of n bytes starting at b[i].
CodePoint(b, i, n) ==
    IF n = 1 THEN b[i]
    ELSE IF n = 2 THEN (b[i] - 192) * 64 + (b[i + 1] - 128)
    ELSE IF n = 3 THEN (b[i] - 224) * 4096 + (b[i + 1] - 128) * 64 + (b[i + 2] - 128)
    ELSE (b[i] - 240) * 262144 + (b[i + 1] - 128) * 4096
            + (b[i + 2] - 128) * 64 + (b[i + 3] - 128)

RECURSIVE Utf8DecodeFrom(_, _)
Utf8DecodeFrom(b, i) ==
    IF i > Len(b) THEN <<>>
    ELSE IF Utf8SeqLen(b, i) = 0 THEN <<65533>> \o Utf8DecodeFrom(b, i + 1)
    ELSE <<CodePoint(b, i, Utf8SeqLen(b, i))>>
            \o Utf8DecodeFrom(b, i + Utf8SeqLen(b, i))

\* The String that String::from_utf8(buffer) holds: its code points.
Utf8Decode(b) == Utf8DecodeFrom(b, 1)

\* The UTF-8 bytes of one code point.
Utf8EncodeChar(c) ==
    IF c < 128 THEN <<c>>
    ELSE IF c < 2048 THEN <<192 + (c \div 64), 128 + (c % 64)>>
    ELSE IF c < 65536 THEN <<224 + (c \div 4096), 128 + ((c \div 64) % 64), 128 + (c % 64)>>
    ELSE <<240 + (c \div 262144), 128 + ((c \div 4096) % 64),
           128 + ((c \div 64) % 64), 128 + (c % 64)>>

RECURSIVE Utf8Encode(_)
Utf8Encode(s) ==
    IF s = <<>> THEN <<>> ELSE Utf8EncodeChar(Head(s)) \o Utf8Encode(Tail(s))

\* ------------------------------------------------------------- identifiers

\* The block's serialized form: tag, sizes, dimensions, mime type, payload.
Serialize(block) ==
    LET item == block.content
        m == item.meta
        tag == IF item.variant = "Image" THEN 1 ELSE 2
        bytes == IF item.variant = "Image" THEN item.payload
                 ELSE Utf8Encode(item.payload)
    IN  <<tag, block.size_bytes, m.size_bytes, m.width_px, m.height_px,
          Len(m.mime_type)>> \o m.mime_type \o bytes

\* A 16-bit checksum of bytes[i..], continuing from h.
RECURSIVE Checksum(_, _, _)
Checksum(bytes, i, h) ==
    IF i > Len(bytes) THEN h
    ELSE Checksum(bytes, i + 1, (h * 31 + bytes[i]) % 65521)

\* The digest of a serialized block: its length and its checksum.
Digest(bytes) ==
    LET h == Checksum(bytes, 1, 7)
    IN  <<Len(bytes) % 256, h \div 256, h % 256>>

\* Cid: the identifier derived from a block's content.
CidOf(block) == [hash |-> Digest(Serialize(block))]

NoCid == [hash |-> <<>>]

\* The character of one hexadecimal digit, '0'..'9' and 'a'..'f'.
HexChar(d) == IF d < 10 THEN 48 + d ELSE 87 + d

IsHexChar(c) == (c >= 48 /\ c <= 57) \/ (c >= 97 /\ c <= 102)

HexValue(c) == IF c <= 57 THEN c - 48 ELSE c - 87

RECURSIVE HexEncode(_)
HexEncode(bytes) ==
    IF bytes = <<>> THEN <<>>
    ELSE <<HexChar(Head(bytes) \div 16), HexChar(Head(bytes) % 16)>>
            \o HexEncode(Tail(bytes))

RECURSIVE HexDecode(_)
HexDecode(chars) ==
    IF Len(chars) < 2 THEN <<>>
    ELSE <<16 * HexValue(chars[1]) + HexValue(chars[2])>>
            \o HexDecode(SubSeq(chars, 3, Len(chars)))

\* The multibase prefix of an identifier's textual form ('b').
MultibasePrefix == 98

\* cid.to_string(): the prefix, then the digits of the digest.
CidToString(cid) == <<MultibasePrefix>> \o HexEncode(cid.hash)

\* Cid::from_str(&cid_string): Err on anything that is no textual form.
CidFromStr(s) ==
    IF /\ Len(s) >= 3
       /\ s[1] = MultibasePrefix
       /\ (Len(s) - 1) % 2 = 0
       /\ \A i \in 2..Len(s) : IsHexChar(s[i])
    THEN [ok |-> TRUE, cid |-> [hash |-> HexDecode(Tail(s))]]
    ELSE [ok |-> FALSE, cid |-> NoCid]

\* ------------------------------------------------------------ store client

\* IpfsClient::add(&block): the identifier of the block, which the store then
\* holds; a store error, and nothing stored, on backend failure.
ClientAdd(st, block, backendOk) ==
    IF backendOk
    THEN [ok |-> TRUE, cid |-> CidOf(block), fault |-> "none",
          store |-> (CidOf(block) :> block) @@ st]
    ELSE [ok |-> FALSE, cid |-> NoCid, fault |-> "backend", store |-> st]

\* IpfsClient::get(&cid): the block stored under cid; a store error when the
\* identifier is unknown or the backend is unreachable.
ClientGet(st, cid, backendOk) ==
    IF ~backendOk THEN [ok |-> FALSE, block |-> NoBlock, fault |-> "backend"]
    ELSE IF cid \notin DOMAIN st THEN [ok |-> FALSE, block |-> NoBlock, fault |-> "unknown"]
    ELSE [ok |-> TRUE, block |-> st[cid], fault |-> "none"]

\* ---------------------------------------------------------------- outcomes

\* What a call hands back: kind is "Pending" while it runs, then "OkSome"
\* (Ok(Some(cid))), "OkNone" (Ok(None)), "OkItem" (Ok(content)), "Err"
\* (Err(Arc<Error>)) or "Panic" (an unwrap failed, or a slice was out of range).
Outcome(kind, cid, item, err) == [kind |-> kind, cid |-> cid, item |-> item, err |-> err]

Pending == Outcome("Pending", NoCid, NoItem, "")

Panic(at) == Outcome("Panic", NoCid, NoItem, at)

\* A caller that matches every failed add to "nothing stored".
AddOutcomeSwallow(r) ==
    IF r.ok THEN Outcome("OkSome", r.cid, NoItem, "") ELSE Outcome("OkNone", NoCid, NoItem, "")

\* let cid = ipfs_client.add(&block).await?; ... Ok(Some(cid))
AddOutcome(r) ==
    IF r.ok THEN Outcome("OkSome", r.cid, NoItem, "") ELSE Outcome("Err", NoCid, NoItem, "store")

\* A load that hands back an empty item in place of the block's content.
GetOutcomeEmpty(r) ==
    IF r.ok THEN Outcome("OkItem", NoCid, NoItem, "") ELSE Outcome("Err", NoCid, NoItem, "store")

\* let data = ipfs_client.get(&cid)?; ... Ok(data.content)
GetOutcome(r) ==
    IF r.ok THEN Outcome("OkItem", NoCid, r.block.content, "")
    ELSE Outcome("Err", NoCid, NoItem, "store")

\* A text block whose size is the number of characters of the string.
TextBlockChars(string, size) ==
    ContentItemBlock(TextItem(string, Len(string)), Len(string))

\* ContentItemBlock { content: ContentItem::Text(..), size_bytes }
TextBlock(string, size) == ContentItemBlock(TextItem(string, size), size)

\* ContentItemBlock { content: ContentItem::Image(..), size_bytes }
ImageBlock(buf, size, mime, w, h) ==
    ContentItemBlock(ImageItem(buf, size, mime, w, h), size)

\* ------------------------------------------------------------------- state

VARIABLES
    pc,          \* each caller's position in store_file / load_file
    op,          \* the function the caller runs: "none", "store", "load"
    file,        \* contents of the file at the path the caller passed
    size_bytes,  \* store_file's local size_bytes
    buffer,      \* store_file's local buffer
    block,       \* store_file's local block
    cid_string,  \* load_file's argument
    outcome,     \* what the call handed back to its caller
    writer,      \* the caller holding write access to the client, 0 when none
    readers,     \* the callers holding read access to the client
    store,       \* the store client's contents: identifier -> block
    ncalls,      \* calls made so far
    nops,        \* add / get invocations of the caller's current call
    fault,       \* why an add / get of the current call failed, "none" if none did
    acquired,    \* whether the current call ever held access to the client
    returned,    \* [buffer, cid] of every store_file call that returned Some(cid)
    later,       \* the load started after its identifier was returned by a store
    nrewrites    \* rewrites of files being stored, so far

vars == <<pc, op, file, size_bytes, buffer, block, cid_string, outcome, writer,
          readers, store, ncalls, nops, fault, acquired, returned, later, nrewrites>>

\* The lock, the store and the record of identifiers handed out.
shared == <<writer, readers, store, returned, nrewrites>>

\* store_file's locals.
locals == <<size_bytes, buffer, block>>

\* The block store_file builds from `buf` when nothing else touches the file.
BlockOf(buf) ==
    IF IsImage(Prefix4(buf))
    THEN ContentItemBlock(ImageItem(buf, Len(buf), MimeType(Prefix4(buf)),
                                    ImageDimensions(buf).width_px,
                                    ImageDimensions(buf).height_px), Len(buf))
    ELSE ContentItemBlock(TextItem(Utf8Decode(buf), Len(buf)), Len(buf))

\* The buffers store_file can store.
Storable ==
    {b \in Buffers : /\ SliceInBounds(b)
                     /\ IF IsImage(Prefix4(b)) THEN ImageDimensions(b).ok ELSE Utf8Valid(b)}

\* Strings that are no textual form of an identifier: empty, and 'b' then '!'.
Malformed == {<<>>, <<MultibasePrefix, 33, 48>>}

\* Textual forms of the identifiers of the blocks that can be stored.
WellFormed == {CidToString(CidOf(BlockOf(b))) : b \in Storable}

\* The strings a caller may hand to load_file, besides cid.to_string() of an
\* identifier that a store_file call returned.
CidStrings == WellFormed \cup Malformed

\* A store that already holds the blocks of the two files of tests::test_store_load.
Preloaded == {Howdy, SmallestGif}

Init ==
    /\ pc = [p \in Procs |-> "idle"]
    /\ op = [p \in Procs |-> "none"]
    /\ file = [p \in Procs |-> <<>>]
    /\ size_bytes = [p \in Procs |-> 0]
    /\ buffer = [p \in Procs |-> <<>>]
    /\ block = [p \in Procs |-> NoBlock]
    /\ cid_string = [p \in Procs |-> <<>>]
    /\ outcome = [p \in Procs |-> Pending]
    /\ writer = 0
    /\ readers = {}
    /\ store = [c \in {} |-> NoBlock]
    /\ ncalls = 0
    /\ nops = [p \in Procs |-> 0]
    /\ fault = [p \in Procs |-> "none"]
    /\ acquired = [p \in Procs |-> FALSE]
    /\ returned = {}
    /\ later = [p \in Procs |-> FALSE]
    /\ nrewrites = 0

\* The state after store_file stored each of the Preloaded files and returned.
InitLoaded ==
    /\ pc = [p \in Procs |-> "idle"]
    /\ op = [p \in Procs |-> "none"]
    /\ file = [p \in Procs |-> <<>>]
    /\ size_bytes = [p \in Procs |-> 0]
    /\ buffer = [p \in Procs |-> <<>>]
    /\ block = [p \in Procs |-> NoBlock]
    /\ cid_string = [p \in Procs |-> <<>>]
    /\ outcome = [p \in Procs |-> Pending]
    /\ writer = 0
    /\ readers = {}
    /\ store = [c \in {CidOf(BlockOf(b)) : b \in Preloaded} |->
                    CHOOSE blk \in {BlockOf(b) : b \in Preloaded} : CidOf(blk) = c]
    /\ ncalls = 0
    /\ nops = [p \in Procs |-> 0]
    /\ fault = [p \in Procs |-> "none"]
    /\ acquired = [p \in Procs |-> FALSE]
    /\ returned = {[buffer |-> b, cid |-> CidOf(BlockOf(b))] : b \in Preloaded}
    /\ later = [p \in Procs |-> FALSE]
    /\ nrewrites = 0

\* A caller between calls.
Free(p) == pc[p] \in {"idle", "done"}

\* ------------------------------------------------------------- the lock

\* A write lock that waits for the writer only.
CanWriteIgnoringReaders == writer = 0

\* ipfs_client.write().await is granted: no writer and no reader holds it.
CanWrite == writer = 0 /\ readers = {}

\* ipfs_client.read().await is granted: no writer holds it.
CanRead == writer = 0

\* A read guard that is forgotten, never dropped.
ReadersAfterLeak(p) == readers

\* The read guard is dropped when load_file returns or unwinds.
ReadersAfterDrop(p) == readers \ {p}

\* -------------------------------------------------------------- store_file

\* A caller calls store_file(path, ipfs_client); the file at path holds b.
store_file_call(p, b) ==
    /\ Free(p)
    /\ ncalls < MaxCalls
    /\ ncalls' = ncalls + 1
    /\ pc' = [pc EXCEPT ![p] = "s_metadata"]
    /\ op' = [op EXCEPT ![p] = "store"]
    /\ file' = [file EXCEPT ![p] = b]
    /\ size_bytes' = [size_bytes EXCEPT ![p] = 0]
    /\ buffer' = [buffer EXCEPT ![p] = <<>>]
    /\ block' = [block EXCEPT ![p] = NoBlock]
    /\ cid_string' = [cid_string EXCEPT ![p] = <<>>]
    /\ outcome' = [outcome EXCEPT ![p] = Pending]
    /\ nops' = [nops EXCEPT ![p] = 0]
    /\ fault' = [fault EXCEPT ![p] = "none"]
    /\ acquired' = [acquired EXCEPT ![p] = FALSE]
    /\ later' = [later EXCEPT ![p] = FALSE]
    /\ UNCHANGED shared

\* let size_bytes = fs::metadata(&path).await.unwrap().len();
store_file_metadata(p) ==
    /\ pc[p] = "s_metadata"
    /\ size_bytes' = [size_bytes EXCEPT ![p] = Len(file[p])]
    /\ pc' = [pc EXCEPT ![p] = "s_read"]
    /\ UNCHANGED <<op, file, buffer, block, cid_string, outcome, ncalls, nops,
                   fault, acquired, later, shared>>

\* let buffer = fs::read(&path).await.unwrap();
store_file_read(p) ==
    /\ pc[p] = "s_read"
    /\ buffer' = [buffer EXCEPT ![p] = file[p]]
    /\ pc' = [pc EXCEPT ![p] = "s_classify"]
    /\ UNCHANGED <<op, file, size_bytes, block, cid_string, outcome, ncalls, nops,
                   fault, acquired, later, shared>>

\* The call ends without reaching the client, handing back `o`.
store_file_ends(p, o) ==
    /\ outcome' = [outcome EXCEPT ![p] = o]
    /\ pc' = [pc EXCEPT ![p] = "done"]
    /\ UNCHANGED block

\* The call built block `b` and goes on to the client.
store_file_built(p, b) ==
    /\ block' = [block EXCEPT ![p] = b]
    /\ pc' = [pc EXCEPT ![p] = "s_write_lock"]
    /\ UNCHANGED outcome

\* if infer::is_image(&buffer[0..4]) { image_dimensions(path).unwrap() .. }
\* else { match String::from_utf8(buffer) { Ok(string) => .., Err(_) => Ok(None) } }
store_file_classify(p) ==
    /\ pc[p] = "s_classify"
    /\ IF ~SliceInBounds(buffer[p])
       THEN store_file_ends(p, Panic("slice"))
       ELSE IF IsImage(Prefix4(buffer[p]))
       THEN IF ~ImageDimensions(file[p]).ok
            THEN store_file_ends(p, Panic("dimensions"))
            ELSE store_file_built(p,
                    ImageBlock(buffer[p], size_bytes[p], MimeType(Prefix4(buffer[p])),
                               ImageDimensions(file[p]).width_px,
                               ImageDimensions(file[p]).height_px))
       ELSE IF Utf8Valid(buffer[p])
            THEN store_file_built(p, TextBlock(Utf8Decode(buffer[p]), size_bytes[p]))
            ELSE store_file_ends(p, Outcome("OkNone", NoCid, NoItem, ""))
    /\ UNCHANGED <<op, file, size_bytes, buffer, cid_string, ncalls, nops, fault,
                   acquired, later, shared>>

\* let ipfs_client = &ipfs_client.write().await;
store_file_write_lock(p) ==
    /\ pc[p] = "s_write_lock"
    /\ CanWrite
    /\ writer' = p
    /\ acquired' = [acquired EXCEPT ![p] = TRUE]
    /\ pc' = [pc EXCEPT ![p] = "s_add"]
    /\ UNCHANGED <<op, file, locals, cid_string, outcome, readers, store, ncalls,
                   nops, fault, later, returned, nrewrites>>

\* let cid = ipfs_client.add(&block).await?; Ok(Some(cid)), the guard dropped.
store_file_add(p, backendOk) ==
    /\ pc[p] = "s_add"
    /\ \E r \in {ClientAdd(store, block[p], backendOk)} :
         \E o \in {AddOutcome(r)} :
           /\ store' = r.store
           /\ outcome' = [outcome EXCEPT ![p] = o]
           /\ fault' = [fault EXCEPT ![p] = r.fault]
           /\ returned' = IF o.kind = "OkSome"
                          THEN returned \cup {[buffer |-> buffer[p], cid |-> o.cid]}
                          ELSE returned
    /\ nops' = [nops EXCEPT ![p] = nops[p] + 1]
    /\ writer' = 0
    /\ pc' = [pc EXCEPT ![p] = "done"]
    /\ UNCHANGED <<op, file, locals, cid_string, readers, ncalls, acquired, later,
                   nrewrites>>

\* --------------------------------------------------------------- load_file

\* A caller calls load_file(cid_string, ipfs_client) with the string s.
load_file_call(p, s) ==
    /\ Free(p)
    /\ ncalls < MaxCalls
    /\ ncalls' = ncalls + 1
    /\ pc' = [pc EXCEPT ![p] = "l_read_lock"]
    /\ op' = [op EXCEPT ![p] = "load"]
    /\ file' = [file EXCEPT ![p] = <<>>]
    /\ size_bytes' = [size_bytes EXCEPT ![p] = 0]
    /\ buffer' = [buffer EXCEPT ![p] = <<>>]
    /\ block' = [block EXCEPT ![p] = NoBlock]
    /\ cid_string' = [cid_string EXCEPT ![p] = s]
    /\ outcome' = [outcome EXCEPT ![p] = Pending]
    /\ nops' = [nops EXCEPT ![p] = 0]
    /\ fault' = [fault EXCEPT ![p] = "none"]
    /\ acquired' = [acquired EXCEPT ![p] = FALSE]
    /\ later' = [later EXCEPT ![p] = \E r \in returned : CidToString(r.cid) = s]
    /\ UNCHANGED shared

\* let ipfs_client = &ipfs_client.read().await;
load_file_read_lock(p) ==
    /\ pc[p] = "l_read_lock"
    /\ CanRead
    /\ readers' = readers \cup {p}
    /\ acquired' = [acquired EXCEPT ![p] = TRUE]
    /\ pc' = [pc EXCEPT ![p] = "l_get"]
    /\ UNCHANGED <<op, file, locals, cid_string, outcome, writer, store, ncalls,
                   nops, fault, later, returned, nrewrites>>

\* let cid = Cid::from_str(&cid_string).unwrap();
\* let data = ipfs_client.get(&cid)?; Ok(data.content), the guard dropped.
load_file_get(p, backendOk) ==
    /\ pc[p] = "l_get"
    /\ IF ~CidFromStr(cid_string[p]).ok
       THEN /\ outcome' = [outcome EXCEPT ![p] = Panic("cid")]
            /\ UNCHANGED <<nops, fault>>
       ELSE \E r \in {ClientGet(store, CidFromStr(cid_string[p]).cid, backendOk)} :
                /\ outcome' = [outcome EXCEPT ![p] = GetOutcome(r)]
                /\ fault' = [fault EXCEPT ![p] = r.fault]
                /\ nops' = [nops EXCEPT ![p] = nops[p] + 1]
    /\ readers' = ReadersAfterDrop(p)
    /\ pc' = [pc EXCEPT ![p] = "done"]
    /\ UNCHANGED <<op, file, locals, cid_string, writer, store, ncalls, acquired,
                   later, returned, nrewrites>>

\* ------------------------------------------------------------- environment

\* Another program rewrites the file while store_file is working on it.
file_rewritten(p, b) ==
    /\ pc[p] \in {"s_metadata", "s_read", "s_classify"}
    /\ file[p] # b
    /\ nrewrites < MaxRewrites
    /\ nrewrites' = nrewrites + 1
    /\ file' = [file EXCEPT ![p] = b]
    /\ UNCHANGED <<pc, op, locals, cid_string, outcome, ncalls, nops, fault,
                   acquired, later, writer, readers, store, returned>>

\* ------------------------------------------------------------ specifications

\* The steps of a call under way.
Step(p) ==
    \/ store_file_metadata(p)
    \/ store_file_read(p)
    \/ store_file_classify(p)
    \/ store_file_write_lock(p)
    \/ \E ok \in BOOLEAN : store_file_add(p, ok)
    \/ load_file_read_lock(p)
    \/ \E ok \in BOOLEAN : load_file_get(p, ok)

Next ==
    \/ \E p \in Procs, b \in Buffers : store_file_call(p, b)
    \/ \E p \in Procs, s \in CidStrings : load_file_call(p, s)
    \/ \E p \in Procs, r \in returned : load_file_call(p, CidToString(r.cid))
    \/ \E p \in Procs : Step(p)

\* Callers of store_file and load_file; each call's file is left alone.
Spec == Init /\ [][Next]_vars

NextRace ==
    \/ Next
    \/ \E p \in Procs, b \in Buffers : file_rewritten(p, b)

\* The same, with the files open to other programs while they are stored.
SpecRace == Init /\ [][NextRace]_vars

\* The same callers, of a store that already holds two blocks.
SpecLoaded == InitLoaded /\ [][Next]_vars

\* Every call under way is scheduled again; the store client answers.
SpecFair == Spec /\ \A p \in Procs : WF_vars(Step(p))

\* ------------------------------------------------------------------ claims

\* A finished call of store_file, of load_file.
StoreDone(p) == pc[p] = "done" /\ op[p] = "store"
LoadDone(p) == pc[p] = "done" /\ op[p] = "load"

\* Ok(content), as load_file hands it back.
OkItem(item) == Outcome("OkItem", NoCid, item, "")

\* C1 (round trip): a load_file call that starts after store_file returned an
\* identifier for a buffer, and is given the textual form of that identifier,
\* hands back the content item classified from that buffer (variant, metadata
\* and payload), unless the backend fails on its get; other calls in between
\* change nothing of it.
C1_RoundTrip ==
    \A q \in Procs : \A r \in returned :
        (LoadDone(q) /\ later[q] /\ cid_string[q] = CidToString(r.cid)
            /\ fault[q] # "backend")
        => outcome[q] = OkItem(BlockOf(r.buffer).content)

\* An image and a text were both stored, by three calls in all, and a later
\* load handed back the accented text.
C1_Witness ==
    \E q \in Procs :
        /\ LoadDone(q) /\ later[q] /\ outcome[q].kind = "OkItem"
        /\ outcome[q].item.variant = "Text"
        /\ outcome[q].item.meta.size_bytes # Len(outcome[q].item.payload)
        /\ ncalls = MaxCalls
        /\ \E r \in returned : r.buffer = SmallestGif

\* The buffer is not image-signed and is not valid UTF-8.
Undecodable(buf) ==
    SliceInBounds(buf) /\ ~IsImage(Prefix4(buf)) /\ ~Utf8ValidFrom(buf, 1)

\* C2 (skip on undecodable binary): once store_file has classified a buffer of
\* at least 4 bytes that is neither image-signed nor valid UTF-8, the call is
\* over with Ok(None); it never held the client, never called add, and holds
\* no access now.
C2_SkipUndecodable ==
    \A p \in Procs :
        (op[p] = "store" /\ pc[p] \in {"s_write_lock", "s_add", "done"}
            /\ Undecodable(buffer[p]))
        => /\ pc[p] = "done"
           /\ outcome[p] = Outcome("OkNone", NoCid, NoItem, "")
           /\ ~acquired[p]
           /\ nops[p] = 0
           /\ writer # p

\* A call skipped a binary file while the store held a block.
C2_Witness ==
    \E p \in Procs :
        /\ StoreDone(p) /\ Undecodable(buffer[p]) /\ outcome[p].kind = "OkNone"
        /\ DOMAIN store # {}

\* C3 (malformed identifier rejection), as claimed: load_file of a string that
\* is no textual form of an identifier ends with an error outcome that is not
\* a store error, and get was not called.
C3_MalformedIsError ==
    \A p \in Procs :
        (LoadDone(p) /\ ~CidFromStr(cid_string[p]).ok)
        => outcome[p].kind = "Err" /\ outcome[p].err # "store" /\ nops[p] = 0

\* C4 (corrupt image), as claimed: store_file of a buffer that is image-signed
\* and that the decoder cannot read ends with an error outcome; nothing was
\* handed to add.
C4_CorruptImageIsError ==
    \A p \in Procs :
        (StoreDone(p) /\ SliceInBounds(buffer[p]) /\ IsImage(Prefix4(buffer[p]))
            /\ ~ImageDimensions(buffer[p]).ok)
        => outcome[p].kind = "Err" /\ nops[p] = 0 /\ block[p] = NoBlock

\* C5 (writer exclusion): while a store_file call is inside add, no other
\* store_file call is inside add and no load_file call is inside get.
C5_WriterExclusion ==
    \A p \in Procs : \A q \in Procs \ {p} :
        pc[p] = "s_add" => pc[q] \notin {"s_add", "l_get"}

\* A store is inside add while another store waits for the lock, or a load does.
C5_Witness ==
    \E p \in Procs : \E q \in Procs \ {p} :
        pc[p] = "s_add" /\ pc[q] \in {"s_write_lock", "l_read_lock"}

\* C6 (size_bytes), as claimed: every block store_file built has its top-level
\* size_bytes equal to the size_bytes of its metadata, and both equal to the
\* number of bytes of the buffer that was read and placed in it.
C6_SizeIsBufferLength ==
    \A p \in Procs :
        (op[p] = "store" /\ block[p] # NoBlock)
        => /\ block[p].size_bytes = block[p].content.meta.size_bytes
           /\ block[p].size_bytes = Len(buffer[p])

\* C7 (store errors are propagated): a call whose add or get failed ends with
\* the store error, not with Ok(None), an identifier or a content item, and
\* called the client once.
C7_StoreErrorPropagated ==
    \A p \in Procs :
        (pc[p] = "done" /\ fault[p] # "none")
        => /\ outcome[p] = Outcome("Err", NoCid, NoItem, "store")
           /\ nops[p] = 1

\* An add failed in one call, a get of an unknown identifier in another.
C7_Witness ==
    \E p \in Procs : \E q \in Procs \ {p} :
        /\ StoreDone(p) /\ fault[p] = "backend"
        /\ LoadDone(q) /\ fault[q] = "unknown"

\* The identifier load_file parsed from its argument.
ParsedCid(p) == CidFromStr(cid_string[p]).cid

\* C8, in a state: a finished load of an identifier that was in the store when
\* the call began hands back the content stored under that identifier, unless
\* the backend failed.
C8_OwnItem ==
    \A q \in Procs :
        (LoadDone(q) /\ later[q] /\ fault[q] # "backend")
        => /\ ParsedCid(q) \in DOMAIN store
           /\ outcome[q] = OkItem(store[ParsedCid(q)].content)

\* C8, in a step: a step of load_file leaves the store as it is.
C8_LoadKeepsStore ==
    (\E q \in Procs : pc[q] \in {"l_read_lock", "l_get"} /\ pc'[q] # pc[q])
        => store' = store

\* C8 (concurrent read safety): loads of identifiers in the store succeed and
\* hand back the item stored under their own identifier, and no load changes
\* the store, also while several hold read access together.
C8_ConcurrentLoads == []C8_OwnItem /\ [][C8_LoadKeepsStore]_vars

\* Two loads of different identifiers, both in the store, hold read access together.
C8_Witness ==
    \E p \in Procs : \E q \in Procs \ {p} :
        /\ pc[p] = "l_get" /\ pc[q] = "l_get"
        /\ {p, q} \subseteq readers
        /\ later[p] /\ later[q]
        /\ cid_string[p] # cid_string[q]

\* C9 (total over buffer length), as claimed: store_file of a buffer shorter
\* than 4 bytes does not abort, and when the buffer is valid UTF-8 and add
\* succeeds a Text block is stored.
C9_ShortBufferHandled ==
    \A p \in Procs :
        (StoreDone(p) /\ Len(buffer[p]) < 4)
        => /\ outcome[p].kind \in {"OkSome", "OkNone", "Err"}
           /\ (Utf8ValidFrom(buffer[p], 1) /\ fault[p] = "none")
                => (outcome[p].kind = "OkSome" /\ block[p].content.variant = "Text")

\* A caller that is not inside a call holds no access to the client.
C10_Released == \A p \in Procs : Free(p) => (writer # p /\ p \notin readers)

\* While a call is under way, some call can take a step.
C10_NoDeadlock == (\E p \in Procs : ~Free(p)) => ENABLED (\E p \in Procs : Step(p))

\* C10 (release and progress): a finished call holds no access to the client,
\* on success and on every error path; no state with a call under way is a
\* deadlock; under fair scheduling every call that starts finishes.
C10_ReleaseAndProgress ==
    /\ []C10_Released
    /\ []C10_NoDeadlock
    /\ \A p \in Procs : (~Free(p)) ~> (pc[p] = "done")

\* A load unwound on a malformed identifier after taking read access, and a
\* store that failed in add, are both over and the lock is free.
C10_Witness ==
    \E p \in Procs : \E q \in Procs \ {p} :
        /\ LoadDone(p) /\ acquired[p] /\ outcome[p].kind = "Panic"
        /\ StoreDone(q) /\ acquired[q] /\ outcome[q].kind = "Err"
        /\ writer = 0 /\ readers = {}
====
